---- MODULE Spec2Model ----
(***************************************************************************)
(* Model of catalogo-musical: the SQLite store (Banco_Dados.py), the       *)
(* catalog facade and the player (main.py), and the external invocation    *)
(* (tocador.py).                                                           *)
(*                                                                         *)
(* Text values (names, titles, search terms) are sequences of character    *)
(* codes, so that SQLite's BINARY ordering and its LIKE operator are       *)
(* computed as the engine computes them.  URLs are only compared for       *)
(* equality and are plain strings.  A Python Optional[T] is a set with at  *)
(* most one element: {} is None, {v} is the value v.                       *)
(***************************************************************************)
EXTENDS Integers, Sequences, FiniteSets, TLC

\* ------------------------------------------------------------------ bounds

\* Cap of the AUTOINCREMENT counter of table musicas (ids are never reused).
MaxMusicaId == 2

\* Cap of the length of the catalog's append-only list _musicas.
MaxCatalogo == 3

\* Longest list of tracks handed to the player.
MaxPlaylist == 3

\* Cap of the number of fechar() calls made directly on the store.
MaxFechamentos == 1

\* ------------------------------------------------------------ input pools

\* "A", "b"
Nomes == { <<65>>, <<98>> }

\* "b", "Ba"
Titulos == { <<98>>, <<66, 97>> }

Urls == { "u1", "u2" }

\* search terms: "a", "_", "ba"
Termos == { <<97>>, <<95>>, <<98, 97>> }

\* ids handed to adicionar_musica: the first ids the AUTOINCREMENT tables give;
\* an id whose artist or genre has not been created yet is dangling.
IdsArg == 1 .. Cardinality(Nomes)

MusicaIds == 1 .. MaxMusicaId

None == {}

Some(v) == {v}

\* The value of a non-None optional.
Valor(opt) == CHOOSE v \in opt : TRUE

\* Optional arguments of atualizar_musica: not given (None), a falsy value
\* ("" for text, 0 for an id) and a value to set.
OptTitulos == { None, Some(<< >>), Some(<<66, 97>>) }

OptUrls == { None, Some("u2") }

OptArtistaIds == { None, Some(0), Some(2) }

OptGeneroIds == { None, Some(2) }

\* ------------------------------------------------------------------ state

VARIABLES
    artistas,           \* table artistas: set of rows [id, nome]
    generos,            \* table generos: set of rows [id, nome]
    musicas,            \* table musicas: set of rows [id, artista_id, titulo, url, genero_id]
    sqlite_sequence,    \* AUTOINCREMENT counters, one per table
    pc,                 \* the caller: "idle" between calls, "returned" holding a result,
                        \* "recovered" holding the result of an `except sqlite3.Error`
                        \* clause, "raised" with an exception of the call reaching it
    last,               \* the call that returned: [op, args, ret]
    catalogo_musicas,   \* CatalogoMusical._musicas
    playlist_atual,     \* Player._playlist_atual
    tocando,            \* the player: "idle", "playing" (in the loop of tocar_playlist)
                        \* or "invoking" (inside subprocess.run)
    indice,             \* the position of the loop of tocar_playlist in the playlist
    entrada,            \* the arguments of the tocar_musicas call being served
    invocacoes,         \* the mpv runs of the current walk, in the order they returned
    conexao,            \* BancoDeDadosMusica.conexao: "open" or "closed"
    fechamentos,        \* how many times conexao.close() has been called
    executando,         \* InterfaceUsuario.executando
    modo_aleatorio,     \* InterfaceUsuario.modo_aleatorio (None: not assigned yet)
    iteracao,           \* the latest pass of the menu loop: the option typed and
                        \* the except clause taken
    ui                  \* InterfaceUsuario.executar: "loop", "encerrando" (past the
                        \* loop, before servico.fechar()) or "fim"

vars == << artistas, generos, musicas, sqlite_sequence, pc, last, catalogo_musicas,
           playlist_atual, tocando, indice, entrada, invocacoes, conexao, fechamentos,
           executando, modo_aleatorio, iteracao, ui >>

menu == << executando, modo_aleatorio, iteracao, ui >>

store == << artistas, generos, musicas, sqlite_sequence >>

\* PRAGMA foreign_keys is never issued on the connection, so SQLite keeps its
\* default and the FOREIGN KEY clauses of table musicas are not enforced.
ForeignKeysEnabled == FALSE

\* ------------------------------------------------------- SQL statements

\* Mutant: column nome declared without UNIQUE.
NomeLivreSemUnique(tabela, nome) == TRUE

\* INSERT INTO <artistas|generos> (nome) VALUES (?): the UNIQUE constraint.
NomeLivre(tabela, nome) == \A r \in tabela : r.nome # nome

\* SELECT id FROM <tabela> WHERE nome = ?; fetchone(); result[0] if result else None
IdPorNome(tabela, nome) == { r.id : r \in { x \in tabela : x.nome = nome } }

\* Mutant: column url declared without UNIQUE.
MusicaIntegraSemUnique(outras, linha, arts, gens) ==
    ForeignKeysEnabled =>
        /\ \E a \in arts : a.id = linha.artista_id
        /\ \E g \in gens : g.id = linha.genero_id

\* The constraints of INSERT INTO musicas / UPDATE musicas: url UNIQUE, and the
\* two FOREIGN KEY clauses when the connection enforces them.
MusicaIntegra(outras, linha, arts, gens) ==
    /\ \A r \in outras : r.url # linha.url
    /\ ForeignKeysEnabled =>
          /\ \E a \in arts : a.id = linha.artista_id
          /\ \E g \in gens : g.id = linha.genero_id

\* adicionar_artista / adicionar_genero on one table and its AUTOINCREMENT
\* counter: the INSERT, or on the UNIQUE violation the SELECT of the existing id.
GetOrCreate(tabela, seq, nome) ==
    IF NomeLivre(tabela, nome)
    THEN [tabela |-> tabela \cup { [id |-> seq + 1, nome |-> nome] },
          seq |-> seq + 1, ret |-> Some(seq + 1)]
    ELSE [tabela |-> tabela, seq |-> seq, ret |-> IdPorNome(tabela, nome)]

\* adicionar_musica on table musicas and its counter.  The ids are what the
\* caller holds: None violates NOT NULL.  Any IntegrityError is rolled back and
\* gives None.
InserirMusica(tabela, seq, arts, gens, artista_id, titulo, url, genero_id) ==
    IF /\ artista_id # None
       /\ genero_id # None
       /\ MusicaIntegra(tabela, [id |-> seq + 1, artista_id |-> Valor(artista_id),
                                  titulo |-> titulo, url |-> url,
                                  genero_id |-> Valor(genero_id)], arts, gens)
    THEN [tabela |-> tabela \cup { [id |-> seq + 1, artista_id |-> Valor(artista_id),
                                     titulo |-> titulo, url |-> url,
                                     genero_id |-> Valor(genero_id)] },
          seq |-> seq + 1, ret |-> Some(seq + 1)]
    ELSE [tabela |-> tabela, seq |-> seq, ret |-> None]

\* ------------------------------------------------------------ operations

NoCall == [op |-> "none", args |-> << >>, ret |-> None, repetida |-> FALSE]

\* A call made by the (single-threaded) caller, and the result it gets back;
\* repetida: the call repeats, with the same arguments, the call the caller
\* still holds the result of.
Call(op, args, ret) ==
    /\ pc = "idle"
    /\ pc' = "returned"
    /\ last' = [op |-> op, args |-> args, ret |-> ret,
                repetida |-> (last.op = op /\ last.args = args)]

\* No tocar_musicas call stands behind the present playlist.
SemEntrada == [op |-> "none", musicas |-> << >>, aleatorio |-> FALSE]

\* The menu loop has not handled a choice yet.
SemIteracao == [opcao |-> "none", capturada |-> "none"]

Init ==
    /\ artistas = {}
    /\ generos = {}
    /\ musicas = {}
    /\ sqlite_sequence = [artistas |-> 0, generos |-> 0, musicas |-> 0]
    /\ pc = "idle"
    /\ last = NoCall
    /\ catalogo_musicas = << >>
    /\ playlist_atual = << >>
    /\ tocando = "idle"
    /\ indice = 0
    /\ entrada = SemEntrada
    /\ invocacoes = << >>
    /\ conexao = "open"
    /\ fechamentos = 0
    /\ executando = TRUE
    /\ modo_aleatorio = None
    /\ iteracao = SemIteracao
    /\ ui = "loop"

\* What a call on the store leaves alone: the catalog's list, the player, the
\* menu, and the connection itself.
ForaDoBanco == UNCHANGED << catalogo_musicas, playlist_atual, tocando, indice, entrada,
                            invocacoes, conexao, fechamentos, executando, modo_aleatorio,
                            iteracao, ui >>

AdicionarArtista(nome) ==
    LET r == GetOrCreate(artistas, sqlite_sequence.artistas, nome) IN
    /\ artistas' = r.tabela
    /\ sqlite_sequence' = [sqlite_sequence EXCEPT !.artistas = r.seq]
    /\ Call("adicionar_artista", <<nome>>, r.ret)
    /\ UNCHANGED << generos, musicas >>
    /\ ForaDoBanco

AdicionarGenero(nome) ==
    LET r == GetOrCreate(generos, sqlite_sequence.generos, nome) IN
    /\ generos' = r.tabela
    /\ sqlite_sequence' = [sqlite_sequence EXCEPT !.generos = r.seq]
    /\ Call("adicionar_genero", <<nome>>, r.ret)
    /\ UNCHANGED << artistas, musicas >>
    /\ ForaDoBanco

\* The AUTOINCREMENT counter only grows on a successful INSERT; the model stops
\* inserting when it reaches MaxMusicaId.
AdicionarMusica(artista_id, titulo, url, genero_id) ==
    LET r == InserirMusica(musicas, sqlite_sequence.musicas, artistas, generos,
                           Some(artista_id), titulo, url, Some(genero_id)) IN
    /\ r.seq <= MaxMusicaId
    /\ musicas' = r.tabela
    /\ sqlite_sequence' = [sqlite_sequence EXCEPT !.musicas = r.seq]
    /\ Call("adicionar_musica", <<artista_id, titulo, url, genero_id>>, r.ret)
    /\ UNCHANGED << artistas, generos >>
    /\ ForaDoBanco

\* Mutant: the arguments tested with `is not None`.
TruthyIsNotNone(opt, falsy) == opt # None

\* Python truthiness of an optional argument: None, "" and 0 are falsy.
Truthy(opt, falsy) == opt # None /\ opt # Some(falsy)

\* The lists `updates` and `params` as one sequence of column/value pairs.
Updates(titulo, url, artista_id, genero_id) ==
    (IF Truthy(titulo, << >>) THEN << [col |-> "titulo", val |-> Valor(titulo)] >> ELSE << >>)
    \o (IF Truthy(url, "") THEN << [col |-> "url", val |-> Valor(url)] >> ELSE << >>)
    \o (IF Truthy(artista_id, 0) THEN << [col |-> "artista_id", val |-> Valor(artista_id)] >> ELSE << >>)
    \o (IF Truthy(genero_id, 0) THEN << [col |-> "genero_id", val |-> Valor(genero_id)] >> ELSE << >>)

\* The value column `col` takes under SET <updates>: the assigned one, else the current one.
Coluna(updates, col, atual) ==
    IF \E i \in 1 .. Len(updates) : updates[i].col = col
    THEN updates[CHOOSE i \in 1 .. Len(updates) : updates[i].col = col].val
    ELSE atual

\* One row under UPDATE musicas SET <updates>.
LinhaAtualizada(linha, updates) ==
    [id |-> linha.id,
     artista_id |-> Coluna(updates, "artista_id", linha.artista_id),
     titulo |-> Coluna(updates, "titulo", linha.titulo),
     url |-> Coluna(updates, "url", linha.url),
     genero_id |-> Coluna(updates, "genero_id", linha.genero_id)]

AtualizarMusica(musica_id, titulo, url, artista_id, genero_id) ==
    LET updates == Updates(titulo, url, artista_id, genero_id)
        args == <<musica_id, titulo, url, artista_id, genero_id>>
        alvo == { r \in musicas : r.id = musica_id }
        outras == musicas \ alvo
        novas == { LinhaAtualizada(r, updates) : r \in alvo }
    IN  /\ IF updates = << >>
           THEN /\ UNCHANGED musicas
                /\ Call("atualizar_musica", args, FALSE)
           ELSE IF \A n \in novas : MusicaIntegra(outras, n, artistas, generos)
                THEN /\ musicas' = outras \cup novas
                     /\ Call("atualizar_musica", args, Cardinality(alvo) > 0)
                ELSE /\ UNCHANGED musicas
                     /\ Call("atualizar_musica", args, FALSE)
        /\ UNCHANGED << artistas, generos, sqlite_sequence >>
        /\ ForaDoBanco

\* Mutant: DELETE FROM musicas WHERE id <= ?.
DeleteWhereIdAte(tabela, id) == { r \in tabela : r.id > id }

\* DELETE FROM musicas WHERE id = ?: the rows left, and cursor.rowcount.
DeleteWhereId(tabela, id) == { r \in tabela : r.id # id }

RowCount(antes, depois) == Cardinality(antes) - Cardinality(depois)

DeletarMusica(musica_id) ==
    /\ musicas' = DeleteWhereId(musicas, musica_id)
    /\ Call("deletar_musica", <<musica_id>>,
            RowCount(musicas, DeleteWhereId(musicas, musica_id)) > 0)
    /\ UNCHANGED << artistas, generos, sqlite_sequence >>
    /\ ForaDoBanco

\* -------------------------------------------------------------- queries

\* SQLite's BINARY collation of TEXT: memcmp, the shorter string first on a tie.
BinaryLess(s, t) ==
    \E i \in 1 .. Len(t) :
        /\ \A j \in 1 .. (i - 1) : j <= Len(s) /\ s[j] = t[j]
        /\ (i > Len(s) \/ (i - 1 < Len(s) /\ s[i] < t[i]))

\* Case folding of SQLite's LIKE: the 26 ASCII letters only.
Upper(c) == IF c >= 97 /\ c <= 122 THEN c - 32 ELSE c

\* SQLite's LIKE (no ESCAPE clause): % (37) matches any run of characters, _ (95)
\* matches exactly one character, anything else matches itself ignoring ASCII case.
RECURSIVE Like(_, _)
Like(p, s) ==
    IF p = << >> THEN s = << >>
    ELSE IF Head(p) = 37
         THEN Like(Tail(p), s) \/ (s # << >> /\ Like(p, Tail(s)))
         ELSE /\ s # << >>
              /\ (Head(p) = 95 \/ Upper(Head(p)) = Upper(Head(s)))
              /\ Like(Tail(p), Tail(s))

\* FROM musicas m JOIN artistas a ON m.artista_id = a.id JOIN generos g ON m.genero_id = g.id
\* with SELECT m.*, a.nome as artista_nome, g.nome as genero_nome
Juncao ==
    { [id |-> m.id, artista_id |-> m.artista_id, titulo |-> m.titulo, url |-> m.url,
       genero_id |-> m.genero_id, artista_nome |-> a.nome, genero_nome |-> g.nome] :
      <<m, a, g>> \in { x \in musicas \X artistas \X generos :
                         x[1].artista_id = x[2].id /\ x[1].genero_id = x[3].id } }

\* ORDER BY a.nome, m.titulo
MenorNomeTitulo(x, y) ==
    \/ BinaryLess(x.artista_nome, y.artista_nome)
    \/ x.artista_nome = y.artista_nome /\ BinaryLess(x.titulo, y.titulo)

\* ORDER BY m.titulo
MenorTitulo(x, y) == BinaryLess(x.titulo, y.titulo)

\* Whether row x sorts strictly before row y under the ORDER BY clause `ordem`.
Menor(ordem, x, y) ==
    IF ordem = "a.nome, m.titulo" THEN MenorNomeTitulo(x, y) ELSE MenorTitulo(x, y)

\* The row sequences fetchall() may give for a result set under an ORDER BY:
\* every arrangement in which no row comes before a smaller one (SQL leaves the
\* order of rows with equal keys open).
OrderBy(linhas, ordem) ==
    { f \in [1 .. Cardinality(linhas) -> linhas] :
        /\ \A i, j \in DOMAIN f : i # j => f[i] # f[j]
        /\ \A i, j \in DOMAIN f : i < j => ~Menor(ordem, f[j], f[i]) }

\* The unchanged tables of a SELECT.
Consulta ==
    /\ UNCHANGED << artistas, generos, musicas, sqlite_sequence >>
    /\ ForaDoBanco

\* fetchone() of the join WHERE m.id = ?: dict(result) if result else None
MusicaPorId(musica_id) == { j \in Juncao : j.id = musica_id }

ObterMusicaPorId(musica_id) ==
    /\ Call("obter_musica_por_id", <<musica_id>>, MusicaPorId(musica_id))
    /\ Consulta

ObterMusicasPorArtista(artista_id) ==
    /\ \E res \in OrderBy({ j \in Juncao : j.artista_id = artista_id }, "m.titulo") :
          Call("obter_musicas_por_artista", <<artista_id>>, res)
    /\ Consulta

ObterMusicasPorGenero(genero_id) ==
    /\ \E res \in OrderBy({ j \in Juncao : j.genero_id = genero_id }, "m.titulo") :
          Call("obter_musicas_por_genero", <<genero_id>>, res)
    /\ Consulta

ObterTodasMusicas ==
    /\ \E res \in OrderBy(Juncao, "a.nome, m.titulo") :
          Call("obter_todas_musicas", << >>, res)
    /\ Consulta

\* WHERE m.titulo LIKE ? OR a.nome LIKE ? with both parameters '%termo%'
BuscarMusicas(termo) ==
    /\ LET padrao == <<37>> \o termo \o <<37>> IN
       \E res \in OrderBy({ j \in Juncao : Like(padrao, j.titulo) \/ Like(padrao, j.artista_nome) },
                          "a.nome, m.titulo") :
          Call("buscar_musicas", <<termo>>, res)
    /\ Consulta

\* Mutant: SELECT MAX(id) FROM <tabela> in place of COUNT(*).
CountMaxId(tabela) ==
    IF tabela = {} THEN 0
    ELSE CHOOSE i \in { r.id : r \in tabela } : \A r \in tabela : r.id <= i

\* SELECT COUNT(*) as total FROM <tabela>; fetchone()['total']
Count(tabela) == Cardinality(tabela)

\* The dictionary obter_estatisticas returns.
Estatisticas ==
    [artistas |-> Count(artistas), generos |-> Count(generos), musicas |-> Count(musicas)]

ObterEstatisticas ==
    /\ Call("obter_estatisticas", << >>, Estatisticas)
    /\ Consulta

\* The caller goes on to its next call.  It keeps the id a get-or-create gave it
\* (as CatalogoMusical.adicionar_musica does with artista_id and genero_id); every
\* other result is dropped.
Retornar ==
    /\ pc = "returned"
    /\ pc' = "idle"
    /\ last' = IF last.op \in { "adicionar_artista", "adicionar_genero" }
               THEN [last EXCEPT !.repetida = FALSE] ELSE NoCall
    /\ UNCHANGED << artistas, generos, musicas, sqlite_sequence >>
    /\ ForaDoBanco

Next ==
    \/ pc = "idle" /\ \E nome \in Nomes : AdicionarArtista(nome)
    \/ pc = "idle" /\ \E nome \in Nomes : AdicionarGenero(nome)
    \/ pc = "idle" /\ \E a \in IdsArg, t \in Titulos, u \in Urls, g \in IdsArg :
                         AdicionarMusica(a, t, u, g)
    \/ pc = "idle" /\ \E id \in MusicaIds, t \in OptTitulos, u \in OptUrls,
                         a \in OptArtistaIds, g \in OptGeneroIds :
                         AtualizarMusica(id, t, u, a, g)
    \/ pc = "idle" /\ \E id \in MusicaIds : DeletarMusica(id)
    \/ pc = "idle" /\ \E id \in MusicaIds : ObterMusicaPorId(id)
    \/ pc = "idle" /\ \E a \in IdsArg : ObterMusicasPorArtista(a)
    \/ pc = "idle" /\ \E g \in IdsArg : ObterMusicasPorGenero(g)
    \/ pc = "idle" /\ ObterTodasMusicas
    \/ pc = "idle" /\ \E termo \in Termos : BuscarMusicas(termo)
    \/ pc = "idle" /\ ObterEstatisticas
    \/ Retornar

Spec == Init /\ [][Next]_vars

\* ------------------------------------------------------------------ catalog

\* CatalogoMusical.adicionar_musica: get-or-create of the artist and of the genre,
\* the INSERT of the track with whatever ids came back, and a Musica built from
\* the three results, appended to _musicas and returned.  No result is tested.
CatalogoAdicionarMusica(titulo, url, artista, genero) ==
    LET a == GetOrCreate(artistas, sqlite_sequence.artistas, artista)
        g == GetOrCreate(generos, sqlite_sequence.generos, genero)
        m == InserirMusica(musicas, sqlite_sequence.musicas, a.tabela, g.tabela,
                           a.ret, titulo, url, g.ret)
        musica == [id |-> m.ret, titulo |-> titulo, url |-> url,
                   artista_id |-> a.ret, genero_id |-> g.ret,
                   artista_nome |-> artista, genero_nome |-> genero]
    IN  /\ m.seq <= MaxMusicaId
        /\ Len(catalogo_musicas) < MaxCatalogo
        /\ artistas' = a.tabela
        /\ generos' = g.tabela
        /\ musicas' = m.tabela
        /\ sqlite_sequence' = [artistas |-> a.seq, generos |-> g.seq, musicas |-> m.seq]
        /\ catalogo_musicas' = Append(catalogo_musicas, musica)
        /\ Call("catalogo.adicionar_musica", <<titulo, url, artista, genero>>, musica)
        /\ UNCHANGED << playlist_atual, tocando, indice, entrada, invocacoes, conexao,
                        fechamentos >>

NextCatalogo ==
    \/ pc = "idle" /\ \E t \in Titulos, u \in Urls, a \in Nomes, g \in Nomes :
                         CatalogoAdicionarMusica(t, u, a, g) /\ UNCHANGED menu
    \/ Retornar

SpecCatalogo == Init /\ [][NextCatalogo]_vars

\* ------------------------------------------------------------------- player

\* Player.video and Player.volume, set once in __init__.
Video == FALSE

Volume == 80

\* The Musica values handed to the player.
Faixas ==
    { [id |-> Some(1), titulo |-> <<98>>, url |-> "u1", artista_id |-> Some(1),
       genero_id |-> Some(1), artista_nome |-> <<65>>, genero_nome |-> <<65>>],
      [id |-> Some(2), titulo |-> <<66, 97>>, url |-> "u2", artista_id |-> Some(1),
       genero_id |-> Some(2), artista_nome |-> <<65>>, genero_nome |-> <<98>>] }

\* The lists of at most MaxPlaylist tracks (a track may occur more than once).
Listas == UNION { [1 .. n -> Faixas] : n \in 0 .. MaxPlaylist }

\* What a call on the player leaves alone: the store, its caller and the catalog.
ForaDoPlayer == UNCHANGED << artistas, generos, musicas, sqlite_sequence, pc, last,
                             catalogo_musicas, conexao, fechamentos >>

\* Mutant: random.choices(faixas, k=len(faixas)), a draw with replacement.
ShuffleComReposicao(faixas) ==
    { [i \in 1 .. Len(faixas) |-> faixas[p[i]]] :
        p \in [1 .. Len(faixas) -> 1 .. Len(faixas)] }

\* random.shuffle(faixas): the list rearranged in place, in any of its orders.
Shuffle(faixas) ==
    { [i \in 1 .. Len(faixas) |-> faixas[p[i]]] :
        p \in { q \in [1 .. Len(faixas) -> 1 .. Len(faixas)] :
                  \A i, j \in 1 .. Len(faixas) : i # j => q[i] # q[j] } }

\* tocar(link, video, volume): the command line handed to subprocess.run.
Command(link, video, volume) ==
    << "mpv", IF video THEN "" ELSE "--no-video", volume, link >>

\* The ways subprocess.run(command, check=True) ends: exit status 0, a non-zero
\* exit status, no mpv executable.
Resultados == { "ok", "CalledProcessError", "FileNotFoundError" }

\* Whether tocar() returns normally: it catches CalledProcessError and
\* FileNotFoundError.
TocarRetorna(resultado) ==
    resultado \in { "ok", "CalledProcessError", "FileNotFoundError" }

\* Mutant: tocar() without its except clauses.
SeguinteSemExcept(i, n, resultado) ==
    IF resultado = "ok" /\ i < n
    THEN [tocando |-> "playing", indice |-> i + 1]
    ELSE [tocando |-> "idle", indice |-> i]

\* Where the for loop of tocar_playlist stands after the run for entry i of n:
\* at the next entry, or past the end; an exception out of tocar() ends it.
Seguinte(i, n, resultado) ==
    IF TocarRetorna(resultado) /\ i < n
    THEN [tocando |-> "playing", indice |-> i + 1]
    ELSE [tocando |-> "idle", indice |-> i]

\* Player.criar_playlist
CriarPlaylist(faixas) ==
    /\ tocando = "idle"
    /\ playlist_atual' = faixas
    /\ entrada' = SemEntrada
    /\ invocacoes' = << >>
    /\ UNCHANGED << tocando, indice >>
    /\ ForaDoPlayer

\* Player.tocar_playlist up to its first track: "Playlist vazia!" and return, or
\* exibir_playlist and the first pass of the loop.
IniciarPercurso(playlist) ==
    /\ invocacoes' = << >>
    /\ IF playlist = << >>
       THEN tocando' = "idle" /\ UNCHANGED indice
       ELSE tocando' = "playing" /\ indice' = 1

TocarPlaylist ==
    /\ tocando = "idle"
    /\ IniciarPercurso(playlist_atual)
    /\ UNCHANGED << playlist_atual, entrada >>
    /\ ForaDoPlayer

\* Player.tocar_musicas: shuffle, criar_playlist, tocar_playlist.
TocarMusicas(faixas, aleatorio) ==
    /\ tocando = "idle"
    /\ \E lista \in (IF aleatorio THEN Shuffle(faixas) ELSE { faixas }) :
          /\ playlist_atual' = lista
          /\ IniciarPercurso(lista)
    /\ entrada' = [op |-> "tocar_musicas", musicas |-> faixas, aleatorio |-> aleatorio]
    /\ ForaDoPlayer

\* Musica.tocar of the current entry: subprocess.run is called and blocks.
Invocar ==
    /\ tocando = "playing"
    /\ tocando' = "invoking"
    /\ UNCHANGED << playlist_atual, indice, entrada, invocacoes >>
    /\ ForaDoPlayer

\* subprocess.run ends, tocar() handles the outcome, and the loop goes on.
RetornoMpv(resultado) ==
    /\ tocando = "invoking"
    /\ invocacoes' = Append(invocacoes,
            [command |-> Command(playlist_atual[indice].url, Video, Volume),
             resultado |-> resultado])
    /\ LET s == Seguinte(indice, Len(playlist_atual), resultado) IN
       tocando' = s.tocando /\ indice' = s.indice
    /\ UNCHANGED << playlist_atual, entrada >>
    /\ ForaDoPlayer

NextPlayer ==
    \/ (\E faixas \in Listas : CriarPlaylist(faixas)) /\ UNCHANGED menu
    \/ TocarPlaylist /\ UNCHANGED menu
    \/ (\E faixas \in Listas, aleatorio \in BOOLEAN : TocarMusicas(faixas, aleatorio))
          /\ UNCHANGED menu
    \/ Invocar /\ UNCHANGED menu
    \/ (\E resultado \in Resultados : RetornoMpv(resultado)) /\ UNCHANGED menu

SpecPlayer == Init /\ [][NextPlayer]_vars

\* ----------------------------------------------------------- storage faults

\* The storage call of an operation at which the engine raises an sqlite3.Error
\* that is no IntegrityError (disk I/O error, database locked, ...): the main
\* statement, the commit, or the SELECT of the get-or-create; "none" for no fault.
Pontos == { "none", "execute", "commit", "select" }

\* The titles of the tracks added under faults: "b".
TitulosComFalhas == { <<98>> }

\* Whether a storage call raises: always on a closed connection
\* (ProgrammingError: Cannot operate on a closed database), else when the engine
\* faults at it.
Levanta(falha) == conexao = "closed" \/ falha

\* The way out of `except sqlite3.Error: print; self.conexao.rollback(); return`:
\* the rollback is itself a storage call, made outside any try.
DesfechoExcept(rollback) == IF Levanta(rollback) THEN "raised" ELSE "recovered"

\* adicionar_artista / adicionar_genero: try INSERT, commit; except IntegrityError:
\* SELECT (outside any try); except sqlite3.Error: rollback.
DesfechoGetOrCreate(tabela, nome, ponto, rollback) ==
    IF Levanta(ponto = "execute") \/ (NomeLivre(tabela, nome) /\ ponto = "commit")
    THEN DesfechoExcept(rollback)
    ELSE IF ~NomeLivre(tabela, nome) /\ ponto = "select" THEN "raised" ELSE "ok"

\* adicionar_musica / atualizar_musica / deletar_musica: try execute, commit; an
\* IntegrityError (integridade) and any other sqlite3.Error both end in a rollback.
DesfechoEscrita(integridade, ponto, rollback) ==
    IF Levanta(ponto = "execute") \/ (~integridade /\ ponto = "commit")
    THEN DesfechoExcept(rollback)
    ELSE IF integridade /\ Levanta(rollback) THEN "raised" ELSE "ok"

\* The queries: try execute, fetch; except sqlite3.Error: return the empty result.
DesfechoConsulta(ponto) == IF Levanta(ponto = "execute") THEN "recovered" ELSE "ok"

\* A call that left through its except clause: `falso` is returned, or the
\* exception of the clause reaches the caller.  The tables are as committed.
Excecao(op, args, falso, desfecho) ==
    /\ pc = "idle"
    /\ pc' = desfecho
    /\ last' = [op |-> op, args |-> args, ret |-> falso, repetida |-> FALSE]
    /\ UNCHANGED << artistas, generos, musicas, sqlite_sequence >>
    /\ ForaDoBanco

\* An operation under a fault: its fault-free course, or its except clause.
ComFalhas(desfecho, op, args, falso, acao) ==
    IF desfecho = "ok" THEN acao ELSE Excecao(op, args, falso, desfecho)

AdicionarArtistaComFalhas(nome, ponto, rollback) ==
    ComFalhas(DesfechoGetOrCreate(artistas, nome, ponto, rollback),
              "adicionar_artista", <<nome>>, None, AdicionarArtista(nome))

AdicionarGeneroComFalhas(nome, ponto, rollback) ==
    ComFalhas(DesfechoGetOrCreate(generos, nome, ponto, rollback),
              "adicionar_genero", <<nome>>, None, AdicionarGenero(nome))

AdicionarMusicaComFalhas(artista_id, titulo, url, genero_id, ponto, rollback) ==
    ComFalhas(DesfechoEscrita(InserirMusica(musicas, sqlite_sequence.musicas, artistas, generos,
                                            Some(artista_id), titulo, url,
                                            Some(genero_id)).ret = None,
                              ponto, rollback),
              "adicionar_musica", <<artista_id, titulo, url, genero_id>>, None,
              AdicionarMusica(artista_id, titulo, url, genero_id))

\* With nothing to update atualizar_musica returns before any storage call.
AtualizarMusicaComFalhas(musica_id, titulo, url, ponto, rollback) ==
    LET updates == Updates(titulo, url, None, None)
        alvo == { r \in musicas : r.id = musica_id }
        integridade == \E r \in alvo :
            ~MusicaIntegra(musicas \ alvo, LinhaAtualizada(r, updates), artistas, generos)
    IN  ComFalhas(IF updates = << >> THEN "ok" ELSE DesfechoEscrita(integridade, ponto, rollback),
                  "atualizar_musica", <<musica_id, titulo, url, None, None>>, FALSE,
                  AtualizarMusica(musica_id, titulo, url, None, None))

DeletarMusicaComFalhas(musica_id, ponto, rollback) ==
    ComFalhas(DesfechoEscrita(FALSE, ponto, rollback),
              "deletar_musica", <<musica_id>>, FALSE, DeletarMusica(musica_id))

ObterMusicaPorIdComFalhas(musica_id, ponto) ==
    ComFalhas(DesfechoConsulta(ponto),
              "obter_musica_por_id", <<musica_id>>, None, ObterMusicaPorId(musica_id))

ObterTodasMusicasComFalhas(ponto) ==
    ComFalhas(DesfechoConsulta(ponto), "obter_todas_musicas", << >>, << >>, ObterTodasMusicas)

\* BancoDeDadosMusica.fechar: self.conexao is set, so close() is called.
Fechar ==
    /\ conexao' = "closed"
    /\ fechamentos' = fechamentos + 1

\* fechar() called on the store.
FecharConexao ==
    /\ fechamentos < MaxFechamentos
    /\ Fechar
    /\ UNCHANGED << artistas, generos, musicas, sqlite_sequence, pc, last, catalogo_musicas,
                    playlist_atual, tocando, indice, entrada, invocacoes, executando,
                    modo_aleatorio, iteracao, ui >>

\* The caller takes the result, or handles the exception, and goes on.
Seguir ==
    /\ pc \in { "returned", "recovered", "raised" }
    /\ pc' = "idle"
    /\ last' = NoCall
    /\ UNCHANGED << artistas, generos, musicas, sqlite_sequence >>
    /\ ForaDoBanco

NextFalhas ==
    \/ pc = "idle" /\ \E nome \in Nomes, p \in Pontos, rb \in BOOLEAN :
                         AdicionarArtistaComFalhas(nome, p, rb)
    \/ pc = "idle" /\ \E nome \in Nomes, p \in Pontos, rb \in BOOLEAN :
                         AdicionarGeneroComFalhas(nome, p, rb)
    \/ pc = "idle" /\ \E a \in IdsArg, t \in TitulosComFalhas, u \in Urls, g \in IdsArg,
                         p \in Pontos, rb \in BOOLEAN :
                         AdicionarMusicaComFalhas(a, t, u, g, p, rb)
    \/ pc = "idle" /\ \E id \in MusicaIds, t \in { None, Some(<<66, 97>>) }, u \in OptUrls,
                         p \in Pontos, rb \in BOOLEAN :
                         AtualizarMusicaComFalhas(id, t, u, p, rb)
    \/ pc = "idle" /\ \E id \in MusicaIds, p \in Pontos, rb \in BOOLEAN :
                         DeletarMusicaComFalhas(id, p, rb)
    \/ pc = "idle" /\ \E id \in MusicaIds, p \in Pontos : ObterMusicaPorIdComFalhas(id, p)
    \/ pc = "idle" /\ \E p \in Pontos : ObterTodasMusicasComFalhas(p)
    \/ pc = "idle" /\ FecharConexao
    \/ Seguir

SpecFalhas == Init /\ [][NextFalhas]_vars

\* --------------------------------------------------------------------- menu

\* Answers to the prompt "Artista: ": "" (just Enter) and "A"; to "Gênero: ": "A";
\* to "Título: ": "b".
Respostas == { << >>, <<65>> }

RespostasGenero == { <<65>> }

RespostasTitulo == { <<98>> }

\* How the mpv runs started from the menu end.
ResultadosMenu == { "ok", "FileNotFoundError" }

\* Menu input that selects no option: a non-numeric text and a number out of range.
EscolhasInvalidas == { "x", "9" }

\* Musica(id=m['id'], ...) as the catalog builds it from a row of a listing.
MusicaDe(j) ==
    [id |-> Some(j.id), titulo |-> j.titulo, url |-> j.url,
     artista_id |-> Some(j.artista_id), genero_id |-> Some(j.genero_id),
     artista_nome |-> j.artista_nome, genero_nome |-> j.genero_nome]

ListaDeMusicas(res) == [i \in 1 .. Len(res) |-> MusicaDe(res[i])]

\* CatalogoMusical.buscar_musicas / buscar_por_artista / buscar_por_genero: the
\* lists the store's listing may give, as Musica values.
CatalogoBuscarMusicas ==
    { ListaDeMusicas(res) : res \in OrderBy(Juncao, "a.nome, m.titulo") }

CatalogoBuscarPorArtista(artista_id) ==
    { ListaDeMusicas(res) :
        res \in OrderBy({ j \in Juncao : j.artista_id = artista_id }, "m.titulo") }

CatalogoBuscarPorGenero(genero_id) ==
    { ListaDeMusicas(res) :
        res \in OrderBy({ j \in Juncao : j.genero_id = genero_id }, "m.titulo") }

\* def tocar_todas(self): the number of arguments a call may pass.
TocarTodasAceita(nargs) == nargs = 0

\* def tocar_musicas(self, musicas, aleatorio)
TocarMusicasAceita(nargs) == nargs = 2

\* The except clause of the loop that takes an exception raised in its try block.
Capturada(excecao) ==
    IF excecao = "none" THEN "none"
    ELSE IF excecao = "ValueError" THEN "ValueError" ELSE "Exception"

\* Mutant: the loop without its two except clauses.
DepoisDoPassoSemExcept(continua, excecao) ==
    IF excecao # "none" THEN "fim" ELSE IF continua THEN "loop" ELSE "encerrando"

\* Where executar stands after a pass of the loop: `while self.executando`.
DepoisDoPasso(continua, excecao) == IF continua THEN "loop" ELSE "encerrando"

\* The menu is shown and waits for a choice.
NoMenu == ui = "loop" /\ executando /\ tocando = "idle" /\ pc = "idle"

\* One pass of the loop that handled `opcao` and ended with `excecao` raised.
Passo(opcao, excecao) ==
    /\ iteracao' = [opcao |-> opcao, capturada |-> Capturada(excecao)]
    /\ ui' = DepoisDoPasso(executando', excecao)

SemEfeito ==
    UNCHANGED << artistas, generos, musicas, sqlite_sequence, pc, last, catalogo_musicas,
                 playlist_atual, tocando, indice, entrada, invocacoes, conexao, fechamentos >>

\* int(input(...)) raises ValueError, or no branch matches: "Opção inválida!"
EscolhaInvalida(texto) ==
    /\ NoMenu
    /\ UNCHANGED << executando, modo_aleatorio >>
    /\ Passo(texto, IF texto = "x" THEN "ValueError" ELSE "none")
    /\ SemEfeito

\* [1] InterfaceUsuario.adicionar_musica: the prompts, and on "s" the catalog call.
Opcao1(titulo, url, artista, genero, confirmar) ==
    /\ NoMenu
    /\ UNCHANGED << executando, modo_aleatorio >>
    /\ IF confirmar
       THEN CatalogoAdicionarMusica(titulo, url, artista, genero)
       ELSE SemEfeito
    /\ Passo("1", "none")

\* [2] listar_musicas
Opcao2 ==
    /\ NoMenu
    /\ UNCHANGED << executando, modo_aleatorio >>
    /\ Passo("2", "none")
    /\ SemEfeito

\* [3] the shuffle prompt, then self.servico.tocar_todas(self.modo_aleatorio), whose
\* body calls self.player.tocar_musicas(musicas).
Opcao3(resposta) ==
    /\ NoMenu
    /\ UNCHANGED executando
    /\ modo_aleatorio' = Some(resposta)
    /\ IF TocarTodasAceita(1) /\ TocarMusicasAceita(1)
       THEN /\ \E faixas \in CatalogoBuscarMusicas : TocarMusicas(faixas, resposta)
            /\ Passo("3", "none")
       ELSE /\ SemEfeito
            /\ Passo("3", "TypeError")

\* [4] the shuffle prompt, tocar_por_genero: "Nenhum gênero cadastrado!", Cancelar
\* (escolha 0), or servico.tocar_por_genero(genero.id, modo_aleatorio).
Opcao4(resposta, escolha) ==
    /\ NoMenu
    /\ UNCHANGED executando
    /\ modo_aleatorio' = Some(resposta)
    /\ escolha \in { g.id : g \in generos } \cup { 0 }
    /\ IF escolha = 0
       THEN SemEfeito
       ELSE \E faixas \in CatalogoBuscarPorGenero(escolha) : TocarMusicas(faixas, resposta)
    /\ Passo("4", "none")

\* [5] the same for artists.
Opcao5(resposta, escolha) ==
    /\ NoMenu
    /\ UNCHANGED executando
    /\ modo_aleatorio' = Some(resposta)
    /\ escolha \in { a.id : a \in artistas } \cup { 0 }
    /\ IF escolha = 0
       THEN SemEfeito
       ELSE \E faixas \in CatalogoBuscarPorArtista(escolha) : TocarMusicas(faixas, resposta)
    /\ Passo("5", "none")

\* [6] mostrar_estatisticas
Opcao6 ==
    /\ NoMenu
    /\ UNCHANGED << executando, modo_aleatorio >>
    /\ Passo("6", "none")
    /\ SemEfeito

\* [7] self.executando = False
Opcao7 ==
    /\ NoMenu
    /\ executando' = FALSE
    /\ Passo("7", "none")
    /\ UNCHANGED modo_aleatorio
    /\ SemEfeito

\* Past the loop: self.servico.fechar() and the farewell.
Encerrar ==
    /\ ui = "encerrando"
    /\ Fechar
    /\ ui' = "fim"
    /\ UNCHANGED << artistas, generos, musicas, sqlite_sequence, pc, last, catalogo_musicas,
                    playlist_atual, tocando, indice, entrada, invocacoes, executando,
                    modo_aleatorio, iteracao >>

NextMenu ==
    \/ \E texto \in EscolhasInvalidas : EscolhaInvalida(texto)
    \/ \E t \in RespostasTitulo, u \in Urls, a \in Respostas, g \in RespostasGenero,
          c \in BOOLEAN :
          Opcao1(t, u, a, g, c)
    \/ Opcao2
    \/ \E r \in BOOLEAN : Opcao3(r)
    \/ \E r \in BOOLEAN, e \in 0 .. Cardinality(Respostas) : Opcao4(r, e)
    \/ \E r \in BOOLEAN, e \in 0 .. Cardinality(Respostas) : Opcao5(r, e)
    \/ Opcao6
    \/ Opcao7
    \/ Encerrar
    \/ Retornar
    \/ Invocar /\ UNCHANGED menu
    \/ (\E resultado \in ResultadosMenu : RetornoMpv(resultado)) /\ UNCHANGED menu

SpecMenu == Init /\ [][NextMenu]_vars

\* ------------------------------------------------------------------ claims

\* The step in which a call is made and returns.
Chamou(op) == pc = "idle" /\ pc' = "returned" /\ last'.op = op

\* The state in which a call has just returned.
Retornou(op) == pc = "returned" /\ last.op = op

Ids(tabela) == { r.id : r \in tabela }

\* The call c returned the id of the one row of tabela that carries the name it was given.
UmaLinhaComNome(tabela, c) ==
    /\ c.ret # None
    /\ { r \in tabela : r.nome = c.args[1] } = { [id |-> Valor(c.ret), nome |-> c.args[1]] }

\* C1: get-or-create is idempotent.  adicionar_artista(n) returns a non-absent id,
\* after it exactly one artist row has name n, and calling it again right away
\* with the same n returns the same id and leaves the table as it was; the same
\* for adicionar_genero on table generos; and adicionar_genero never creates or
\* changes a row of artistas (nor adicionar_artista a row of generos).
C1_GetOrCreateIdempotente ==
    /\ [](Retornou("adicionar_artista") => UmaLinhaComNome(artistas, last))
    /\ [](Retornou("adicionar_genero") => UmaLinhaComNome(generos, last))
    /\ [][Chamou("adicionar_artista") /\ last'.repetida
            => last'.ret = last.ret /\ artistas' = artistas]_vars
    /\ [][Chamou("adicionar_genero") /\ last'.repetida
            => last'.ret = last.ret /\ generos' = generos]_vars
    /\ [][Chamou("adicionar_genero") => artistas' = artistas]_vars
    /\ [][Chamou("adicionar_artista") => generos' = generos]_vars

\* adicionar_artista was called twice in a row with the same name, with another
\* artist in the table.
C1_Witness ==
    /\ Retornou("adicionar_artista")
    /\ last.repetida
    /\ Cardinality(artistas) = 2

\* C2: adicionar_musica with the url of a stored track returns None and leaves
\* table musicas unchanged, and no two stored tracks ever share a url.
C2_UrlUnica ==
    /\ [](\A r1, r2 \in musicas : r1.url = r2.url => r1 = r2)
    /\ [][Chamou("adicionar_musica") /\ (\E r \in musicas : r.url = last'.args[3])
            => last'.ret = None /\ musicas' = musicas]_vars

\* adicionar_musica was rejected for a url that a stored track has.
C2_Witness ==
    /\ Retornou("adicionar_musica")
    /\ last.ret = None
    /\ \E r \in musicas : r.url = last.args[3]

\* C3 (as claimed): adicionar_musica with an artista_id or genero_id that no
\* stored artist or genre has returns None, and every stored track references
\* an existing artist and an existing genre.
C3_ReferenciasExistem ==
    /\ \A m \in musicas : m.artista_id \in Ids(artistas) /\ m.genero_id \in Ids(generos)
    /\ Retornou("adicionar_musica")
         /\ (last.args[1] \notin Ids(artistas) \/ last.args[4] \notin Ids(generos))
         => last.ret = None

\* An argument of atualizar_musica that is given and neither empty nor zero.
Fornecido(opt, vazio) == opt # None /\ opt # Some(vazio)

\* The row r with exactly the supplied fields of the call's arguments replaced.
SoFornecidos(r, a) ==
    [id |-> r.id,
     titulo |-> IF Fornecido(a[2], << >>) THEN Valor(a[2]) ELSE r.titulo,
     url |-> IF Fornecido(a[3], "") THEN Valor(a[3]) ELSE r.url,
     artista_id |-> IF Fornecido(a[4], 0) THEN Valor(a[4]) ELSE r.artista_id,
     genero_id |-> IF Fornecido(a[5], 0) THEN Valor(a[5]) ELSE r.genero_id]

NadaFornecido(a) ==
    ~(Fornecido(a[2], << >>) \/ Fornecido(a[3], "") \/ Fornecido(a[4], 0) \/ Fornecido(a[5], 0))

\* C4: atualizar_musica changes only what was supplied.  When it returns True the
\* track with that id exists, exactly its supplied (non-empty, non-zero) fields
\* take the new values, and every other field, every other row and the other
\* tables are unchanged; when nothing is supplied (or only empty/zero values)
\* it returns False and the whole store is unchanged.
C4_AtualizaSoFornecidos ==
    [][Chamou("atualizar_musica") =>
        LET a == last'.args IN
        /\ last'.ret = TRUE =>
              /\ \E r \in musicas :
                    /\ r.id = a[1]
                    /\ musicas' = (musicas \ {r}) \cup { SoFornecidos(r, a) }
              /\ UNCHANGED << artistas, generos, sqlite_sequence >>
        /\ NadaFornecido(a) => last'.ret = FALSE /\ UNCHANGED store
      ]_vars

\* atualizar_musica succeeded with only the title supplied, on a store that holds
\* another track too.
C4_Witness ==
    /\ Retornou("atualizar_musica")
    /\ last.ret = TRUE
    /\ Fornecido(last.args[2], << >>)
    /\ last.args[3] = None /\ last.args[4] = None /\ last.args[5] = None
    /\ Cardinality(musicas) = 2

\* C5: deletar_musica returns False and leaves the store unchanged when no track
\* has the id; otherwise it returns True, removes exactly that one row (the other
\* tracks, the artists and the genres unchanged), and obter_musica_por_id of that
\* id then gives None.
C5_DeletaExatamenteUma ==
    /\ [][Chamou("deletar_musica") =>
            LET id == last'.args[1] IN
            IF id \in Ids(musicas)
            THEN /\ last'.ret = TRUE
                 /\ \E r \in musicas : r.id = id /\ musicas' = musicas \ {r}
                 /\ Cardinality(musicas') = Cardinality(musicas) - 1
                 /\ UNCHANGED << artistas, generos >>
            ELSE last'.ret = FALSE /\ UNCHANGED store
         ]_vars
    /\ [](Retornou("deletar_musica") /\ last.ret = TRUE => MusicaPorId(last.args[1]) = None)
    /\ [](Retornou("obter_musica_por_id") /\ last.args[1] \notin Ids(musicas)
            => last.ret = None)

\* deletar_musica removed one of two stored tracks.
C5_Witness ==
    /\ Retornou("deletar_musica")
    /\ last.ret = TRUE
    /\ Cardinality(musicas) = 1

\* termo occurs in s as a contiguous substring, ignoring letter case.
Contem(termo, s) ==
    \E i \in 0 .. (Len(s) - Len(termo)) :
        \A j \in 1 .. Len(termo) : Upper(s[i + j]) = Upper(termo[j])

\* Every stored track references a stored artist and a stored genre.
ReferenciasIntegras ==
    \A m \in musicas : m.artista_id \in Ids(artistas) /\ m.genero_id \in Ids(generos)

\* The ids of the rows of a listing, and a listing without repeated tracks.
IdsDe(res) == { res[i].id : i \in 1 .. Len(res) }

SemRepetidos(res) == \A i, j \in 1 .. Len(res) : i # j => res[i].id # res[j].id

Ordenada(res, ordem) == \A i, j \in 1 .. Len(res) : i < j => ~Menor(ordem, res[j], res[i])

\* The names a denormalized row carries are those of the track's artist and genre.
Denormalizada(j) ==
    /\ \E m \in musicas :
          m = [id |-> j.id, artista_id |-> j.artista_id, titulo |-> j.titulo,
               url |-> j.url, genero_id |-> j.genero_id]
    /\ [id |-> j.artista_id, nome |-> j.artista_nome] \in artistas
    /\ [id |-> j.genero_id, nome |-> j.genero_nome] \in generos

\* C6 (as claimed): buscar_musicas(termo) returns exactly the stored tracks in
\* whose title or artist name termo occurs, ignoring case, as a contiguous
\* substring, each once, ordered by (artist name, title).  Stated for the stores
\* in which every track has its artist and genre.
C6_BuscaPorSubstring ==
    Retornou("buscar_musicas") /\ ReferenciasIntegras =>
        /\ IdsDe(last.ret) =
              { m.id : m \in { x \in musicas :
                    \/ Contem(last.args[1], x.titulo)
                    \/ \E a \in artistas : a.id = x.artista_id /\ Contem(last.args[1], a.nome) } }
        /\ SemRepetidos(last.ret)
        /\ Ordenada(last.ret, "a.nome, m.titulo")

\* C7 (as claimed): obter_todas_musicas returns each stored track exactly once,
\* with the names of its artist and genre, ordered by (artist name, title);
\* obter_musicas_por_artista / obter_musicas_por_genero return exactly the tracks
\* with that artista_id / genero_id, ordered by title.
C7_ListagensCompletas ==
    /\ Retornou("obter_todas_musicas") =>
          /\ IdsDe(last.ret) = Ids(musicas)
          /\ SemRepetidos(last.ret)
          /\ \A i \in 1 .. Len(last.ret) : Denormalizada(last.ret[i])
          /\ Ordenada(last.ret, "a.nome, m.titulo")
    /\ Retornou("obter_musicas_por_artista") =>
          /\ IdsDe(last.ret) = { m.id : m \in { x \in musicas : x.artista_id = last.args[1] } }
          /\ SemRepetidos(last.ret)
          /\ Ordenada(last.ret, "m.titulo")
    /\ Retornou("obter_musicas_por_genero") =>
          /\ IdsDe(last.ret) = { m.id : m \in { x \in musicas : x.genero_id = last.args[1] } }
          /\ SemRepetidos(last.ret)
          /\ Ordenada(last.ret, "m.titulo")

\* The same tracks, each as many times (the same multiset).
MesmoMultiset(s, t) ==
    /\ Len(s) = Len(t)
    /\ \A x \in Faixas :
          Cardinality({ i \in 1 .. Len(s) : s[i] = x }) = Cardinality({ i \in 1 .. Len(t) : t[i] = x })

\* C8: tocar_musicas(musicas, aleatorio) installs a playlist that is a permutation
\* of the list it was given (the list itself, in its order, when aleatorio is
\* false), and once the walk is over mpv has been run exactly once per entry of
\* the playlist, in playlist order, none skipped and none repeated.
C8_PermutacaoTocadaUmaVez ==
    entrada.op = "tocar_musicas" =>
        /\ MesmoMultiset(playlist_atual, entrada.musicas)
        /\ ~entrada.aleatorio => playlist_atual = entrada.musicas
        /\ Len(invocacoes) <= Len(playlist_atual)
        /\ \A k \in 1 .. Len(invocacoes) : invocacoes[k].command[4] = playlist_atual[k].url
        /\ tocando = "idle" => Len(invocacoes) = Len(playlist_atual)

\* A shuffled walk over three tracks, in another order than given, is over.
C8_Witness ==
    /\ entrada.op = "tocar_musicas"
    /\ entrada.aleatorio
    /\ Len(entrada.musicas) = 3
    /\ playlist_atual # entrada.musicas
    /\ tocando = "idle"
    /\ Len(invocacoes) = 3

\* C9: tocar_playlist walks the playlist strictly in order: an mpv run starts only
\* from the loop, when every earlier run has returned; whatever a run's outcome
\* (exit 0, non-zero exit, mpv missing) the loop goes on to the next track, and
\* after the last one the player is idle; with an empty playlist the player
\* never leaves idle and no mpv run is made.
C9_PercursoEmOrdem ==
    /\ [](tocando # "idle" =>
             /\ indice \in 1 .. Len(playlist_atual)
             /\ Len(invocacoes) = indice - 1)
    /\ [](\A k \in 1 .. Len(invocacoes) :
             k <= Len(playlist_atual) /\ invocacoes[k].command[4] = playlist_atual[k].url)
    /\ [](playlist_atual = << >> => tocando = "idle" /\ invocacoes = << >>)
    /\ [][tocando # "invoking" /\ tocando' = "invoking" => tocando = "playing"]_vars
    /\ [][tocando = "invoking" /\ tocando' # "invoking" =>
            /\ Len(invocacoes') = Len(invocacoes) + 1
            /\ playlist_atual' = playlist_atual
            /\ IF indice < Len(playlist_atual)
               THEN tocando' = "playing" /\ indice' = indice + 1
               ELSE tocando' = "idle"
         ]_vars

\* A walk over three tracks is over although the first two runs failed.
C9_Witness ==
    /\ tocando = "idle"
    /\ Len(invocacoes) = 3
    /\ invocacoes[1].resultado = "FileNotFoundError"
    /\ invocacoes[2].resultado = "CalledProcessError"
    /\ invocacoes[3].resultado = "ok"

\* C10 (as claimed): CatalogoMusical.adicionar_musica returns a fully populated
\* Musica: its id, artista_id and genero_id are present, and a track row with that
\* id is stored with the given title and url, linked to an artist row with the
\* given artist name and a genre row with the given genre name.
C10_MusicaCompleta ==
    Retornou("catalogo.adicionar_musica") =>
        LET r == last.ret IN
        /\ r.id # None /\ r.artista_id # None /\ r.genero_id # None
        /\ \E m \in musicas :
              /\ m.id = Valor(r.id)
              /\ m.titulo = last.args[1]
              /\ m.url = last.args[2]
              /\ [id |-> m.artista_id, nome |-> last.args[3]] \in artistas
              /\ [id |-> m.genero_id, nome |-> last.args[4]] \in generos

\* C11 (as claimed): once the menu has handled option 3 on a catalog that lists
\* tracks, the shuffle prompt has been answered and the catalog's full listing
\* has been handed to the player with that answer: the playlist is the listing
\* (in listing order when shuffle was declined) and, when the walk is over, mpv
\* has been run exactly once for every listed track.  After option 4 or 5 a
\* walk under way is over the listing of one genre or one artist.
C11_TocarTodasTocaALista ==
    /\ iteracao.opcao = "3" /\ Juncao # {} =>
          /\ modo_aleatorio # None
          /\ entrada.op = "tocar_musicas"
          /\ entrada.aleatorio = Valor(modo_aleatorio)
          /\ entrada.musicas \in CatalogoBuscarMusicas
          /\ ~entrada.aleatorio => playlist_atual = entrada.musicas
          /\ tocando = "idle" =>
                /\ Len(invocacoes) = Cardinality(Juncao)
                /\ \A j \in Juncao :
                      Cardinality({ k \in 1 .. Len(invocacoes) :
                                     invocacoes[k].command[4] = j.url }) = 1
    /\ iteracao.opcao = "4" /\ tocando # "idle" =>
          \E g \in Ids(generos) : entrada.musicas \in CatalogoBuscarPorGenero(g)
    /\ iteracao.opcao = "5" /\ tocando # "idle" =>
          \E a \in Ids(artistas) : entrada.musicas \in CatalogoBuscarPorArtista(a)

\* C14 (as claimed): every stored artist and every stored genre has a non-empty
\* name, whatever was answered to the prompts of the menu's "add track".
C14_NomesNaoVazios ==
    \A r \in artistas \cup generos : r.nome # << >>

\* C15: the menu loop is left only by the pass that handled option 7: a
\* non-numeric choice, a number out of range and an action that raised all leave
\* executar in the loop; the connection is open while the loop runs, and is
\* closed once, by the close() that follows the loop.
C15_LoopTerminaSoCom7 ==
    /\ [][ui = "loop" /\ ui' # "loop" => iteracao'.opcao = "7" /\ ui' = "encerrando"]_vars
    /\ [](ui = "loop" => conexao = "open" /\ fechamentos = 0)
    /\ [](ui = "encerrando" => ~executando /\ conexao = "open" /\ fechamentos = 0)
    /\ [](ui = "fim" => conexao = "closed" /\ fechamentos = 1)
    /\ [][fechamentos' # fechamentos => ui = "encerrando" /\ ui' = "fim"]_vars

\* The loop is still running after a pass whose action raised (option 3), with a
\* track in the catalog.
C15_Witness ==
    /\ ui = "loop"
    /\ conexao = "open"
    /\ iteracao = [opcao |-> "3", capturada |-> "Exception"]
    /\ musicas # {}

\* C13: obter_estatisticas returns exactly the numbers of stored artist rows,
\* genre rows and track rows; a get-or-create call for a name already stored and
\* a rejected adicionar_musica leave all three numbers as they were.
C13_EstatisticasExatas ==
    /\ [](Retornou("obter_estatisticas") =>
             last.ret = [artistas |-> Cardinality(artistas),
                         generos |-> Cardinality(generos),
                         musicas |-> Cardinality(musicas)])
    /\ [][\/ Chamou("adicionar_artista") /\ (\E r \in artistas : r.nome = last'.args[1])
          \/ Chamou("adicionar_genero") /\ (\E r \in generos : r.nome = last'.args[1])
          \/ Chamou("adicionar_musica") /\ last'.ret = None
          => /\ Cardinality(artistas') = Cardinality(artistas)
             /\ Cardinality(generos') = Cardinality(generos)
             /\ Cardinality(musicas') = Cardinality(musicas)]_vars

\* Statistics of a store with two artists, one genre and one track left of two.
C13_Witness ==
    /\ Retornou("obter_estatisticas")
    /\ last.ret = [artistas |-> 2, generos |-> 1, musicas |-> 1]
    /\ sqlite_sequence.musicas = 2

\* C16 (as claimed): listings and counts agree: the number of tracks that
\* obter_estatisticas reports is the number of records obter_todas_musicas
\* returns, and every stored track is found by obter_musica_por_id.
C16_ListagemEContagemConcordam ==
    /\ Retornou("obter_todas_musicas") => Len(last.ret) = Estatisticas.musicas
    /\ \A m \in musicas : MusicaPorId(m.id) # None

\* C12 (as claimed): no store operation lets a storage fault reach its caller:
\* a call during which a storage call raised (connection closed or not) returns
\* None from an add or a lookup, the empty list from a listing or a search and
\* False from an update or a delete, and the committed rows are as before.
C12_FalhasNaoPropagam ==
    /\ [](pc # "raised")
    /\ [](pc = "recovered" =>
             /\ last.op \in { "adicionar_artista", "adicionar_genero", "adicionar_musica",
                               "obter_musica_por_id" } => last.ret = None
             /\ last.op = "obter_todas_musicas" => last.ret = << >>
             /\ last.op \in { "atualizar_musica", "deletar_musica" } => last.ret = FALSE)
    /\ [][pc' \in { "recovered", "raised" } =>
            UNCHANGED << artistas, generos, musicas, sqlite_sequence >>]_vars

====
